---- MODULE Spec2Model ----
(***************************************************************************)
(* Jan-Pro financial tools: the three Streamlit pages as state machines.   *)
(*                                                                         *)
(*   pages/Depreciation_Schedule.py   SpecDep                              *)
(*   pages/Profit_Analysis.py         SpecProfit, SpecDetail               *)
(*   pages/Upgrade_Fee.py             SpecUpgrade                          *)
(*                                                                         *)
(* Every Streamlit interaction (a cell edit, a widget change, an upload)   *)
(* re-executes the page script from top to bottom, so each action below is *)
(* one user interaction followed by the whole script run it triggers.      *)
(*                                                                         *)
(* Python floats are modelled as exact rationals [n, d] in lowest terms.   *)
(***************************************************************************)
EXTENDS Integers, Sequences, FiniteSets, TLC

\* ------------------------------------------------------------------------
\* Exact rational arithmetic (the model of Python's float operators)
\* ------------------------------------------------------------------------

Abs(x) == IF x < 0 THEN -x ELSE x

RECURSIVE GCD(_, _)
GCD(a, b) == IF b = 0 THEN a ELSE GCD(b, a % b)

\* n / d in lowest terms with a positive denominator (d # 0).
Rat(n, d) ==
    LET g == GCD(Abs(n), Abs(d))
        s == IF (n < 0) # (d < 0) THEN -1 ELSE 1
    IN  [n |-> s * (Abs(n) \div g), d |-> Abs(d) \div g]

RInt(k) == [n |-> k, d |-> 1]
RZero == RInt(0)
RAdd(a, b) == Rat(a.n * b.d + b.n * a.d, a.d * b.d)
RSub(a, b) == Rat(a.n * b.d - b.n * a.d, a.d * b.d)
RMul(a, b) == Rat(a.n * b.n, a.d * b.d)
RDiv(a, b) == Rat(a.n * b.d, a.d * b.n)

\* ------------------------------------------------------------------------
\* Depreciation Schedule page
\* ------------------------------------------------------------------------

VARIABLES
    editor_rows,    \* the asset table as the user edited it (st.data_editor's value)
    edited_df,      \* the DataFrame object edited_df at the end of the script run
    full_schedule,  \* the schedule DataFrame at the end of the script run
    input_sheet     \* what the export wrote to sheet 'Input Assets'

depVars == <<editor_rows, edited_df, full_schedule, input_sheet>>

VARIABLES
    entered_emp,        \* an employee record as the sidebar loop built it
    detail_value, \* the Value text of its exported "Details" row
    parsed_emp,     \* what _parse_employee_detail made of that text
    detail_pc    \* "entered", "exported" or "parsed"

detailVars == <<entered_emp, detail_value, parsed_emp, detail_pc>>

VARIABLES
    sidebar,          \* the values of the Profit page's sidebar widgets
    imported_values,  \* st.session_state["imported_values"]
    uploaded_file,    \* the file in the page's uploader (by name), or None
    results,          \* what the last run of the page calculated
    upload_msg        \* what the import block of the last user-triggered run showed

profitVars == <<sidebar, imported_values, uploaded_file, results, upload_msg>>

VARIABLES
    session_state,       \* the Upgrade Fee page's six inputs in st.session_state
    upgrade_fee_import,  \* the file in that page's uploader (by name), or None
    upgrade_results,     \* what the last run of that page calculated
    upgrade_msg          \* what the upload callback before the last run showed

upgVars == <<session_state, upgrade_fee_import, upgrade_results, upgrade_msg>>

vars == <<depVars, detailVars, profitVars, upgVars>>

\* Bounds of the asset table the user can build.
MaxAssets == 2
AssetChoices ==
    [names |-> {"A", "B"},
     types |-> {"Goodwill"},
     costs |-> {6, 7},
     purchase_years |-> {2024, 2026},
     useful_lives |-> {1, 2}]

asset_types == {"Equipment", "Car", "Computers", "Agreement", "Upgrades", "Accounts", "Goodwill"}
TANGIBLE_TYPES == {"Equipment", "Car", "Computers"}

get_category(asset_type) ==
    IF asset_type \in TANGIBLE_TYPES THEN "Tangible" ELSE "Intangible"

\* One row of the asset table, keyed by the DataFrame's column names.
AssetRow(name, type, cost, year, life) ==
    [c \in {"Asset Name", "Type", "Cost", "Purchase Year", "Useful Life (Years)"} |->
        CASE c = "Asset Name" -> name
          [] c = "Type" -> type
          [] c = "Cost" -> cost
          [] c = "Purchase Year" -> year
          [] OTHER -> life]

\* The sample table st.session_state.df_assets starts with.
SampleAssets == <<AssetRow("Example Asset", "Equipment", 10000, 2024, 5)>>

\* The rows a user may enter (Cost >= 0, Life >= 1 by the column config).
UserAssets ==
    {AssetRow(nm, ty, co, yr, lf) :
        nm \in AssetChoices.names, ty \in AssetChoices.types, co \in AssetChoices.costs,
        yr \in AssetChoices.purchase_years, lf \in AssetChoices.useful_lives}

BaseColumns == <<"Asset Name", "Type", "Cost", "Purchase Year", "Useful Life (Years)">>

\* A DataFrame: its column labels in order, and its rows.
DataFrame(columns, rows) == [columns |-> columns, rows |-> rows]

\* st.data_editor returns a fresh DataFrame holding the edited rows.
data_editor(rows) == DataFrame(BaseColumns, rows)

RECURSIVE SeqMin(_, _)
SeqMin(rows, col) ==
    IF Len(rows) = 1 THEN rows[1][col]
    ELSE LET m == SeqMin(Tail(rows), col)
         IN  IF rows[1][col] <= m THEN rows[1][col] ELSE m

RECURSIVE SeqMax(_, _)
SeqMax(rows, col) ==
    IF Len(rows) = 1 THEN rows[1][col]
    ELSE LET m == SeqMax(Tail(rows), col)
         IN  IF rows[1][col] >= m THEN rows[1][col] ELSE m

\* df['End Year'] = df['Purchase Year'] + df['Useful Life (Years)'] - 1
\* assigns a new column into the caller's DataFrame object.
WithEndYear(df) ==
    DataFrame(
        Append(df.columns, "End Year"),
        [i \in 1..Len(df.rows) |->
            df.rows[i] @@
            ("End Year" :> df.rows[i]["Purchase Year"] + df.rows[i]["Useful Life (Years)"] - 1)])

\* Mutant of InPeriod: the last year of the asset's life is left out.
InPeriod_EndExclusive(asset, cal_year) ==
    asset["Purchase Year"] <= cal_year /\ cal_year < asset["End Year"]

\* Whether cal_year lies in the asset's depreciation period.
InPeriod(asset, cal_year) ==
    asset["Purchase Year"] <= cal_year /\ cal_year <= asset["End Year"]

\* annual = asset["Cost"] / asset["Useful Life (Years)"]
Annual(asset) == Rat(asset["Cost"], asset["Useful Life (Years)"])

\* Mutant of YearLoop: an asset outside its period gets no entry at all.
RECURSIVE YearLoop_NoZero(_, _, _)
YearLoop_NoZero(rows, cal_year, k) ==
    IF k = 0 THEN [cols |-> <<>>, total |-> RZero]
    ELSE LET prev == YearLoop_NoZero(rows, cal_year, k - 1)
             asset == rows[k]
             annual == Rat(asset["Cost"], asset["Useful Life (Years)"])
         IN  IF asset["Purchase Year"] <= cal_year /\ cal_year <= asset["End Year"]
             THEN [cols |-> (asset["Asset Name"] :> annual) @@ prev.cols,
                   total |-> RAdd(prev.total, annual)]
             ELSE prev

\* The inner loop over df.iterrows() after k assets: the dict year_data's
\* per-asset entries (a later asset of the same name overwrites the entry)
\* and the running year_total_dep.
RECURSIVE YearLoop(_, _, _)
YearLoop(rows, cal_year, k) ==
    IF k = 0 THEN [cols |-> <<>>, total |-> RZero]
    ELSE LET prev == YearLoop(rows, cal_year, k - 1)
             asset == rows[k]
             annual == Annual(asset)
         IN  IF InPeriod(asset, cal_year)
             THEN [cols |-> (asset["Asset Name"] :> annual) @@ prev.cols,
                   total |-> RAdd(prev.total, annual)]
             ELSE [cols |-> (asset["Asset Name"] :> RZero) @@ prev.cols,
                   total |-> prev.total]

\* year_data for one calendar year.
YearData(rows, cal_year) ==
    LET r == YearLoop(rows, cal_year, Len(rows))
    IN  [Year |-> cal_year, Assets |-> r.cols, Total |-> r.total]

\* Mutant of generate_calendar_schedule: range(start_year, end_year).
generate_calendar_schedule_ShortRange(df) ==
    IF df.rows = <<>> THEN [schedule |-> <<>>, df |-> df]
    ELSE LET d == WithEndYear(df)
             start_year == SeqMin(d.rows, "Purchase Year")
             end_year == SeqMax(d.rows, "End Year")
         IN  [schedule |->
                 [i \in 1..(end_year - start_year) |->
                     YearData(d.rows, start_year + i - 1)],
              df |-> d]

\* generate_calendar_schedule(df): the returned schedule rows and the state
\* the argument df is left in.
generate_calendar_schedule(df) ==
    IF df.rows = <<>> THEN [schedule |-> <<>>, df |-> df]
    ELSE LET d == WithEndYear(df)
             start_year == SeqMin(d.rows, "Purchase Year")
             end_year == SeqMax(d.rows, "End Year")
         IN  [schedule |->
                 [i \in 1..(end_year - start_year + 1) |->
                     YearData(d.rows, start_year + i - 1)],
              df |-> d]

\* Mutant of cumsum: each row holds its own total, not the running sum.
cumsum_Local(schedule, k) ==
    IF k = 0 THEN RZero ELSE schedule[k].Total

\* Series.cumsum() of "Total Annual Depreciation" up to row k.
RECURSIVE cumsum(_, _)
cumsum(schedule, k) ==
    IF k = 0 THEN RZero ELSE RAdd(cumsum(schedule, k - 1), schedule[k].Total)

\* full_schedule["Cumulative Depreciation"] = ....cumsum()
WithCumulative(schedule) ==
    [k \in 1..Len(schedule) |->
        [Year |-> schedule[k].Year, Assets |-> schedule[k].Assets,
         Total |-> schedule[k].Total, Cumulative |-> cumsum(schedule, k)]]

NoSheet == [written |-> FALSE]

\* One run of the page script over the table the editor holds.
DepScriptRun(rows) ==
    LET df == data_editor(rows)
        g == generate_calendar_schedule(df)
    IN  /\ editor_rows' = rows
        /\ edited_df' = g.df
        /\ full_schedule' =
              IF g.schedule # <<>> THEN WithCumulative(g.schedule) ELSE <<>>
        /\ input_sheet' =
              IF g.schedule # <<>>
              THEN [written |-> TRUE, frame |-> g.df]
              ELSE NoSheet
        /\ UNCHANGED <<detailVars, profitVars, upgVars>>

RemoveAt(s, i) == [j \in 1..(Len(s) - 1) |-> IF j < i THEN s[j] ELSE s[j + 1]]

\* The user appends a row in the data editor.
AddRow ==
    /\ Len(editor_rows) < MaxAssets
    /\ \E a \in UserAssets : DepScriptRun(Append(editor_rows, a))

\* The user deletes a row in the data editor.
DeleteRow ==
    \E i \in 1..Len(editor_rows) : DepScriptRun(RemoveAt(editor_rows, i))

\* The user edits one cell of a row in the data editor.
EditCell ==
    \E i \in 1..Len(editor_rows), a \in UserAssets :
        /\ Cardinality({c \in DOMAIN a : a[c] # editor_rows[i][c]}) = 1
        /\ DepScriptRun([editor_rows EXCEPT ![i] = a])

\* The state after the first script run over the sample table.
DepIdle ==
    LET df == data_editor(SampleAssets)
        g == generate_calendar_schedule(df)
    IN  /\ editor_rows = SampleAssets
        /\ edited_df = g.df
        /\ full_schedule = WithCumulative(g.schedule)
        /\ input_sheet = [written |-> TRUE, frame |-> g.df]

NextDep == AddRow \/ DeleteRow \/ EditCell



\* ------------------------------------------------------------------------
\* Python numbers and text (Profit Analysis, Upgrade Fee)
\*
\* A float is a rational [n, d]; an int carries the extra field int, which
\* arithmetic drops (int * float is a float). Text is a sequence of
\* one-character strings.
\* ------------------------------------------------------------------------

PyInt(k) == [n |-> k, d |-> 1, int |-> TRUE]
IsPyInt(x) == "int" \in DOMAIN x
\* float(x) of a number
ToFloat(x) == [n |-> x.n, d |-> x.d]
\* Python's == on numbers (3 == 3.0)
NumEq(a, b) == a.n = b.n /\ a.d = b.d

RECURSIVE Pow10(_)
Pow10(k) == IF k = 0 THEN 1 ELSE 10 * Pow10(k - 1)

\* The decimal m * 10^-k.
Dec(m, k) == Rat(m, Pow10(k))

Digits10 == <<"0", "1", "2", "3", "4", "5", "6", "7", "8", "9">>
DigitChars == {Digits10[i] : i \in 1..10}
DigitChar(v) == Digits10[v + 1]
DigitVal(c) == CHOOSE v \in 0..9 : Digits10[v + 1] = c

\* str(n) of a natural number
RECURSIVE NatStr(_)
NatStr(n) == IF n < 10 THEN <<DigitChar(n)>> ELSE NatStr(n \div 10) \o <<DigitChar(n % 10)>>

\* n written with exactly k digits (leading zeros)
RECURSIVE FixedDigits(_, _)
FixedDigits(n, k) ==
    IF k = 0 THEN <<>> ELSE FixedDigits(n \div 10, k - 1) \o <<DigitChar(n % 10)>>

\* The number of decimal places of a terminating decimal n/d.
RECURSIVE Places(_, _)
Places(d, k) == IF Pow10(k) % d = 0 THEN k ELSE Places(d, k + 1)

\* str(x) / f"{x}" of a number: an int prints its digits; a float prints the
\* shortest decimal that reads back as it, with at least one decimal place.
\* (Floats below 1e-4 or from 1e16 print with an exponent; the values of
\* this model lie in between.)
PyStr(x) ==
    LET sign == IF x.n < 0 THEN <<"-">> ELSE <<>>
        a == Abs(x.n)
    IN  IF IsPyInt(x) THEN sign \o NatStr(a)
        ELSE LET k == Places(x.d, 0)
                 m == a * (Pow10(k) \div x.d)
             IN  IF k = 0 THEN sign \o NatStr(a) \o <<".", "0">>
                 ELSE sign \o NatStr(m \div Pow10(k)) \o <<".">> \o FixedDigits(m % Pow10(k), k)

\* round(x * 10^k) to the nearest integer, ties to even, of x >= 0
RoundScaled(x, k) ==
    LET num == x.n * Pow10(k)
        fl == num \div x.d
        rem == num % x.d
    IN  IF 2 * rem > x.d \/ (2 * rem = x.d /\ fl % 2 = 1) THEN fl + 1 ELSE fl

\* digits of n with a comma between groups of three
RECURSIVE Grouped(_)
Grouped(n) ==
    IF n < 1000 THEN NatStr(n)
    ELSE Grouped(n \div 1000) \o <<",">> \o FixedDigits(n % 1000, 3)

\* f"{x:,.2f}"
FmtMoney(x) ==
    LET q == RoundScaled([n |-> Abs(x.n), d |-> x.d], 2)
    IN  (IF x.n < 0 THEN <<"-">> ELSE <<>>)
            \o Grouped(q \div 100) \o <<".">> \o FixedDigits(q % 100, 2)

Whitespace == {" "}

\* s.replace(c, "") for each c in chars
RECURSIVE RemoveChars(_, _)
RemoveChars(s, chars) ==
    IF s = <<>> THEN <<>>
    ELSE IF Head(s) \in chars THEN RemoveChars(Tail(s), chars)
    ELSE <<Head(s)>> \o RemoveChars(Tail(s), chars)

RECURSIVE LStrip(_)
LStrip(s) == IF s # <<>> /\ Head(s) \in Whitespace THEN LStrip(Tail(s)) ELSE s

RECURSIVE RStrip(_)
RStrip(s) ==
    IF s # <<>> /\ s[Len(s)] \in Whitespace THEN RStrip(SubSeq(s, 1, Len(s) - 1)) ELSE s

\* s.strip()
Strip(s) == RStrip(LStrip(s))

\* The value of a sequence of digits.
RECURSIVE DigitsVal(_)
DigitsVal(s) ==
    IF s = <<>> THEN 0 ELSE 10 * DigitsVal(SubSeq(s, 1, Len(s) - 1)) + DigitVal(s[Len(s)])

\* float(text) for text in plain decimal notation: an optional sign, digits
\* with at most one point and at least one digit. Anything else raises
\* ValueError (ok = FALSE).
ParseFloat(text) ==
    LET neg == text # <<>> /\ Head(text) = "-"
        body == IF text # <<>> /\ Head(text) \in {"-", "+"} THEN Tail(text) ELSE text
        dots == {i \in 1..Len(body) : body[i] = "."}
        wellFormed ==
            /\ \A i \in 1..Len(body) : body[i] \in DigitChars \cup {"."}
            /\ Cardinality(dots) <= 1
            /\ \E i \in 1..Len(body) : body[i] \in DigitChars
    IN  IF ~wellFormed THEN [ok |-> FALSE]
        ELSE LET p == IF dots = {} THEN Len(body) + 1 ELSE CHOOSE i \in dots : TRUE
                 ip == SubSeq(body, 1, p - 1)
                 fp == SubSeq(body, p + 1, Len(body))
                 mag == DigitsVal(ip \o fp)
             IN  [ok |-> TRUE,
                  val |-> Rat(IF neg THEN -mag ELSE mag, Pow10(Len(fp)))]

\* A cell of a table read by pd.read_csv: text, a number, or NaN (empty).
StrCell(s) == [str |-> s]
NaN == [nan |-> TRUE]
IsStr(c) == "str" \in DOMAIN c
IsNaN(c) == "nan" \in DOMAIN c
IsNum(c) == "n" \in DOMAIN c

\* _parse_money(value): a number is returned as a float (NaN included: the
\* isinstance test precedes pd.isna); text is stripped of $ , % and blanks
\* and converted, 0.0 when that fails.
_parse_money(value) ==
    IF IsNaN(value) THEN NaN
    ELSE IF IsNum(value) THEN ToFloat(value)
    ELSE LET cleaned == Strip(RemoveChars(value.str, {"$", ",", "%"}))
             f == ParseFloat(cleaned)
         IN  IF f.ok THEN f.val ELSE RZero

\* The first index at or after i where needle occurs in s, or 0.
RECURSIVE IndexFrom(_, _, _)
IndexFrom(s, needle, i) ==
    IF i + Len(needle) - 1 > Len(s) THEN 0
    ELSE IF SubSeq(s, i, i + Len(needle) - 1) = needle THEN i
    ELSE IndexFrom(s, needle, i + 1)

\* The end of the longest run of characters of class starting at i (i - 1 if none).
RECURSIVE RunEnd(_, _, _)
RunEnd(s, class, i) ==
    IF i <= Len(s) /\ s[i] \in class THEN RunEnd(s, class, i + 1) ELSE i - 1

\* re.search(label + r"\s*\$?([class]+)", s), dollar saying whether the
\* pattern has the optional \$: the captured group of the leftmost match,
\* or no match.
RECURSIVE SearchField(_, _, _, _, _)
SearchField(s, label, dollar, class, from) ==
    LET at == IndexFrom(s, label, from)
    IN  IF at = 0 THEN [found |-> FALSE]
        ELSE LET ws == RunEnd(s, Whitespace, at + Len(label)) + 1
                 st == IF dollar /\ ws <= Len(s) /\ s[ws] = "$" THEN ws + 1 ELSE ws
                 en == RunEnd(s, class, st)
             IN  IF en >= st THEN [found |-> TRUE, group |-> SubSeq(s, st, en)]
                 ELSE SearchField(s, label, dollar, class, at + 1)

MoneyClass == DigitChars \cup {".", ","}
NumberClass == DigitChars \cup {"."}

\* The field names of the detail text (lines 100-104).
DetailField ==
    [Wage |->
        <<"W", "a", "g", "e", ":">>,
     Hours |->
        <<"H", "o", "u", "r", "s", ":">>,
     Nights |->
        <<"N", "i", "g", "h", "t", "s", ":">>,
     Weeks |->
        <<"W", "e", "e", "k", "s", ":">>,
     Total |->
        <<"T", "o", "t", "a", "l", ":">>]

\* _parse_employee_detail(detail_str): the record (ok), no record when a
\* field does not match (empty), or ValueError from float() (raised).
_parse_employee_detail(detail_str) ==
    LET wage_match == SearchField(detail_str, DetailField.Wage, TRUE, MoneyClass, 1)
        hours_match == SearchField(detail_str, DetailField.Hours, FALSE, NumberClass, 1)
        nights_match == SearchField(detail_str, DetailField.Nights, FALSE, NumberClass, 1)
        weeks_match == SearchField(detail_str, DetailField.Weeks, FALSE, NumberClass, 1)
        total_match == SearchField(detail_str, DetailField.Total, TRUE, MoneyClass, 1)
    IN  IF ~(wage_match.found /\ hours_match.found /\ nights_match.found
                /\ weeks_match.found /\ total_match.found)
        THEN [kind |-> "empty"]
        ELSE LET hours == ParseFloat(hours_match.group)
                 nights == ParseFloat(nights_match.group)
                 weeks == ParseFloat(weeks_match.group)
             IN  IF ~(hours.ok /\ nights.ok /\ weeks.ok) THEN [kind |-> "raised"]
                 ELSE [kind |-> "ok",
                       rec |-> [Item |-> StrCell(<<"I", "m", "p", "o", "r", "t", "e", "d", " ", "E", "m", "p", "l", "o", "y", "e", "e">>),
                                HourlyWage |-> _parse_money(StrCell(wage_match.group)),
                                HoursNight |-> hours.val,
                                NightsWeek |-> nights.val,
                                WeeksMonth |-> weeks.val,
                                MonthlyCost |-> _parse_money(StrCell(total_match.group))]]

\* The employee record the sidebar loop appends for one employee.
EmployeeRecord(item, hourly_wage, hours_per_night, nights_per_week, weeks_per_month) ==
    [Item |-> item,
     HourlyWage |-> hourly_wage,
     HoursNight |-> hours_per_night,
     NightsWeek |-> nights_per_week,
     WeeksMonth |-> weeks_per_month,
     MonthlyCost |->
        RMul(RMul(RMul(hourly_wage, hours_per_night), nights_per_week), weeks_per_month)]

\* The Value of the exported "<Item> Details" row of one employee.
EmployeeDetail(emp) ==
    <<"W", "a", "g", "e", ":", " ", "$">> \o PyStr(emp.HourlyWage)
        \o <<"/", "h", "r", ",", " ", "H", "o", "u", "r", "s", ":", " ">> \o PyStr(emp.HoursNight)
        \o <<",", " ", "N", "i", "g", "h", "t", "s", ":", " ">> \o PyStr(emp.NightsWeek)
        \o <<",", " ", "W", "e", "e", "k", "s", ":", " ">> \o PyStr(emp.WeeksMonth)
        \o <<",", " ", "T", "o", "t", "a", "l", ":", " ", "$">> \o FmtMoney(emp.MonthlyCost)

\* ------------------------------------------------------------------------
\* Employee detail text: export then import of one employee record
\* ------------------------------------------------------------------------

\* The values the sidebar inputs of one employee take in this model.
DetailChoices ==
    [hourly_wage |-> {Dec(0, 0), Dec(155, 1), Dec(20, 0), Dec(1250, 0)},
     hours_per_night |-> {Dec(25, 1), Dec(4, 0)},
     nights_per_week |-> {PyInt(0), PyInt(3), PyInt(5)},
     weeks_per_month |-> {Dec(433, 2), Dec(4, 0)}]

EnteredEmployees ==
    {EmployeeRecord(StrCell(<<"E", "m", "p", "l", "o", "y", "e", "e", " ", "1">>), w, h, n, k) :
        w \in DetailChoices.hourly_wage, h \in DetailChoices.hours_per_night, n \in DetailChoices.nights_per_week, k \in DetailChoices.weeks_per_month}

NotParsed == [kind |-> "none"]

DetailIdle ==
    /\ entered_emp = EmployeeRecord(StrCell(<<"E", "m", "p", "l", "o", "y", "e", "e", " ", "1">>), Dec(0, 0), Dec(0, 0), PyInt(0), Dec(433, 2))
    /\ detail_value = <<>>
    /\ parsed_emp = NotParsed
    /\ detail_pc = "idle"

InitDetail ==
    /\ entered_emp \in EnteredEmployees
    /\ detail_value = <<>>
    /\ parsed_emp = NotParsed
    /\ detail_pc = "entered"

\* The export loop renders the record as the Value of its "Details" row.
RenderDetail ==
    /\ detail_pc = "entered"
    /\ detail_value' = EmployeeDetail(entered_emp)
    /\ detail_pc' = "exported"
    /\ UNCHANGED <<entered_emp, parsed_emp>>
    /\ UNCHANGED <<depVars, profitVars, upgVars>>

\* The import loop parses the Value of the "Details" row.
ParseDetail ==
    /\ detail_pc = "exported"
    /\ parsed_emp' = _parse_employee_detail(detail_value)
    /\ detail_pc' = "parsed_emp"
    /\ UNCHANGED <<entered_emp, detail_value>>
    /\ UNCHANGED <<depVars, profitVars, upgVars>>

NextDetail == RenderDetail \/ ParseDetail

\* ------------------------------------------------------------------------
\* Profit Analysis page
\* ------------------------------------------------------------------------

\* Float arithmetic with NaN (an empty cell of an uploaded table is NaN).
NAdd(a, b) == IF IsNaN(a) \/ IsNaN(b) THEN NaN ELSE RAdd(a, b)
NSub(a, b) == IF IsNaN(a) \/ IsNaN(b) THEN NaN ELSE RSub(a, b)
NMul(a, b) == IF IsNaN(a) \/ IsNaN(b) THEN NaN ELSE RMul(a, b)
NDiv(a, b) == IF IsNaN(a) \/ IsNaN(b) THEN NaN ELSE RDiv(a, b)
\* a > 0 (False for NaN)
NPos(a) == ~IsNaN(a) /\ a.n > 0

SELF_CLEANING == StrCell(<<"S", "e", "l", "f", "-", "C", "l", "e", "a", "n", "i", "n", "g">>)
EMPLOYEES_CLEANING == StrCell(<<"E", "m", "p", "l", "o", "y", "e", "e", "s", " ", "D", "o", " ", "A", "l", "l", " ", "C", "l", "e", "a", "n", "i", "n", "g">>)
CleaningModes == {SELF_CLEANING, EMPLOYEES_CLEANING}

royalty_rate == Rat(10, 100)
management_fee_rate == Rat(5, 100)
insurance_rate == Rat(55, 1000)
commission_rate == RInt(0)

\* Bounds of the sidebar inputs.
MaxEmployees == 1
SidebarChoices ==
    [monthly_billing |-> {RInt(0), RInt(4000), RInt(10000)},
     supply_cost |-> {RInt(0), RInt(300)},
     other_cost |-> {RInt(0), RInt(80)},
     upgrade_fee |-> {RInt(0), RInt(100)}]

\* The four inputs of one employee: wage, hours per night, nights per week,
\* weeks per month.
EmployeeInputs(w, h, n, k) == [wage |-> w, hours |-> h, nights |-> n, weeks |-> k]
\* What the widgets of a new employee hold (value=0.0, 0.0, 0, 4.33).
DefaultEmployeeInputs == EmployeeInputs(Dec(0, 0), Dec(0, 0), PyInt(0), Dec(433, 2))
EmployeeChoices ==
    {DefaultEmployeeInputs,
     EmployeeInputs(Dec(20, 0), Dec(5, 0), PyInt(5), Dec(4, 0))}

\* The sidebar loop: the employee records of the widgets, in order.
SidebarEmployees(inputs) ==
    [i \in 1..Len(inputs) |->
        EmployeeRecord(StrCell(<<"E", "m", "p", "l", "o", "y", "e", "e", " ">> \o NatStr(i)), inputs[i].wage, inputs[i].hours,
                       inputs[i].nights, inputs[i].weeks)]

\* sum(emp.get("Monthly Cost ($)", 0.0) for emp in records), also the
\* running labor_cost += ... of the sidebar loop
RECURSIVE SumMonthlyCost(_)
SumMonthlyCost(records) ==
    IF records = <<>> THEN RZero
    ELSE NAdd(SumMonthlyCost(SubSeq(records, 1, Len(records) - 1)),
              records[Len(records)].MonthlyCost)

None == [none |-> TRUE]
IsNone(x) == "none" \in DOMAIN x

\* The override with the labor cost worked out again from the imported
\* employees' wage, hours, nights and weeks.
ApplyImported_Recomputed(w, imported) ==
    LET live == [monthly_billing |-> w.monthly_billing,
                 supply_cost |-> w.supply_cost,
                 other_cost |-> w.other_cost,
                 upgrade_fee |-> w.upgrade_fee,
                 cleaning_mode |-> w.cleaning_mode,
                 employee_records |-> SidebarEmployees(w.employees),
                 labor_cost |-> SumMonthlyCost(SidebarEmployees(w.employees))]
    IN  IF IsNone(imported) THEN live
        ELSE LET imported_emps == imported.employee_records
                 recomputed ==
                     [i \in 1..Len(imported_emps) |->
                         [imported_emps[i] EXCEPT
                             !.MonthlyCost =
                                 NMul(NMul(NMul(imported_emps[i].HourlyWage,
                                                imported_emps[i].HoursNight),
                                           imported_emps[i].NightsWeek),
                                      imported_emps[i].WeeksMonth)]]
             IN  [monthly_billing |-> imported.monthly_billing,
                  supply_cost |-> imported.supply_cost,
                  other_cost |-> imported.other_cost,
                  upgrade_fee |-> w.upgrade_fee,
                  cleaning_mode |-> imported.cleaning_mode,
                  employee_records |->
                      IF imported_emps # <<>> THEN imported_emps ELSE live.employee_records,
                  labor_cost |->
                      IF imported_emps # <<>> THEN SumMonthlyCost(recomputed)
                      ELSE imported.labor_cost]

\* Lines 69-81: the values the calculation uses, live ones overridden by
\* the imported payload.
ApplyImported(w, imported) ==
    LET live == [monthly_billing |-> w.monthly_billing,
                 supply_cost |-> w.supply_cost,
                 other_cost |-> w.other_cost,
                 upgrade_fee |-> w.upgrade_fee,
                 cleaning_mode |-> w.cleaning_mode,
                 employee_records |-> SidebarEmployees(w.employees),
                 labor_cost |-> SumMonthlyCost(SidebarEmployees(w.employees))]
    IN  IF IsNone(imported) THEN live
        ELSE LET imported_emps == imported.employee_records
             IN  [monthly_billing |-> imported.monthly_billing,
                  supply_cost |-> imported.supply_cost,
                  other_cost |-> imported.other_cost,
                  upgrade_fee |-> w.upgrade_fee,
                  cleaning_mode |-> imported.cleaning_mode,
                  employee_records |->
                      IF imported_emps # <<>> THEN imported_emps ELSE live.employee_records,
                  labor_cost |->
                      IF imported_emps # <<>> THEN SumMonthlyCost(imported_emps)
                      ELSE imported.labor_cost]

\* The percentage without its zero case: the labor cost itself where the
\* billing is not positive.
LaborCostPercentage_NoZeroCase(v) ==
    IF NPos(v.monthly_billing)
    THEN NMul(NDiv(v.labor_cost, v.monthly_billing), RInt(100))
    ELSE v.labor_cost

\* labor_cost_percentage (line 134)
LaborCostPercentage(v) ==
    IF NPos(v.monthly_billing)
    THEN NMul(NDiv(v.labor_cost, v.monthly_billing), RInt(100))
    ELSE RZero

\* The total with the upgrade fee counted as a cost.
TotalCost_WithUpgradeFee(v) ==
    NAdd(NAdd(NAdd(NAdd(NAdd(NAdd(NAdd(v.supply_cost, v.other_cost), v.labor_cost),
        NMul(v.monthly_billing, royalty_rate)),
        NMul(v.monthly_billing, management_fee_rate)),
        NMul(v.monthly_billing, insurance_rate)),
        NMul(v.monthly_billing, commission_rate)),
        v.upgrade_fee)

\* total_cost (lines 137-145)
TotalCost(v) ==
    NAdd(NAdd(NAdd(NAdd(NAdd(NAdd(v.supply_cost, v.other_cost), v.labor_cost),
        NMul(v.monthly_billing, royalty_rate)),
        NMul(v.monthly_billing, management_fee_rate)),
        NMul(v.monthly_billing, insurance_rate)),
        NMul(v.monthly_billing, commission_rate))

\* net_profit (line 147)
NetProfit(monthly_billing, total_cost) == NSub(monthly_billing, total_cost)

\* profit_margin (line 149)
ProfitMargin(monthly_billing, net_profit) ==
    IF NPos(monthly_billing)
    THEN NMul(NDiv(net_profit, monthly_billing), RInt(100))
    ELSE RZero

\* The expressions that divided by monthly_billing in a run.
Divisions(v) ==
    IF NPos(v.monthly_billing) THEN {"labor_cost_percentage", "profit_margin"} ELSE {}

\* a < k, a > k for a float a and an integer k (False for NaN)
NBelow(a, k) == ~IsNaN(a) /\ a.n < k * a.d
NAbove(a, k) == ~IsNaN(a) /\ a.n > k * a.d

\* Lines 212-228: the advisory the run shows, "none" when no branch is taken.
Advisory(monthly_billing, cleaning_mode, net_profit, profit_margin) ==
    LET self == cleaning_mode = SELF_CLEANING
        employees == cleaning_mode = EMPLOYEES_CLEANING
    IN  IF ~NPos(monthly_billing) THEN "none"
        ELSE IF NBelow(net_profit, 0) THEN "loss"
        ELSE IF NBelow(profit_margin, 5) /\ self THEN "self_below_5"
        ELSE IF NBelow(profit_margin, 10) /\ self THEN "self_below_10"
        ELSE IF NBelow(profit_margin, 20) /\ self THEN "self_below_20"
        ELSE IF NAbove(profit_margin, 20) /\ self THEN "self_above_20"
        ELSE IF NBelow(profit_margin, 5) /\ employees THEN "employees_below_5"
        ELSE IF NBelow(profit_margin, 10) /\ employees THEN "employees_below_10"
        ELSE IF NAbove(profit_margin, 20) /\ employees THEN "employees_above_20"
        ELSE "none"

\* Lines 134-228: the results of one run over the values v. c holds
\* total_cost, net_profit and profit_margin, each worked out once from the
\* one before it.
Calculate(v) ==
    CHOOSE r \in
        {[monthly_billing |-> v.monthly_billing,
          supply_cost |-> v.supply_cost,
          other_cost |-> v.other_cost,
          upgrade_fee |-> v.upgrade_fee,
          cleaning_mode |-> v.cleaning_mode,
          employee_records |-> v.employee_records,
          labor_cost |-> v.labor_cost,
          labor_cost_percentage |-> LaborCostPercentage(v),
          total_cost |-> c[1],
          net_profit |-> c[2],
          profit_margin |-> c[3],
          divisions |-> Divisions(v),
          advisory |-> Advisory(v.monthly_billing, v.cleaning_mode, c[2], c[3])] :
            c \in {<<b[1], b[2], ProfitMargin(v.monthly_billing, b[2])>> :
                      b \in {<<a, NetProfit(v.monthly_billing, a)>> :
                                a \in {TotalCost(v)}}}} : TRUE

\* ---- the import pipeline ----

\* The Item texts the import looks up (lines 328-347).
ProfitItem ==
    [Billing |->
        StrCell(<<"C", "o", "n", "t", "r", "a", "c", "t", " ", "M", "o", "n", "t", "h", "l", "y", " ", "B", "i", "l", "l", "i", "n", "g">>),
     Supply |->
        StrCell(<<"S", "u", "p", "p", "l", "y", " ", "C", "o", "s", "t">>),
     Other |->
        StrCell(<<"O", "t", "h", "e", "r", " ", "C", "o", "s", "t", "s">>),
     Mode |->
        StrCell(<<"C", "l", "e", "a", "n", "i", "n", "g", " ", "M", "o", "d", "e">>),
     TotalLabor |->
        StrCell(<<"T", "o", "t", "a", "l", " ", "L", "a", "b", "o", "r", " ", "C", "o", "s", "t">>)]

Row(item, value) == [Item |-> item, Value |-> value]

\* Whether a later row has the same Item / an earlier one has.
LastOf(rows, i) == \A j \in (i + 1)..Len(rows) : rows[j].Item # rows[i].Item
FirstOf(rows, i) == \A j \in 1..(i - 1) : rows[j].Item # rows[i].Item

\* A lookup that gives $0.00 for a missing Item instead of the default.
DictGet_DefaultIgnored(rows, label, default) ==
    IF \E i \in 1..Len(rows) : rows[i].Item = label
    THEN rows[CHOOSE i \in 1..Len(rows) : rows[i].Item = label /\ LastOf(rows, i)].Value
    ELSE StrCell(<<"$", "0", ".", "0", "0">>)

\* dict(zip(Item, Value)).get(label, default): the last row of that Item wins.
DictGet(rows, label, default) ==
    IF \E i \in 1..Len(rows) : rows[i].Item = label
    THEN rows[CHOOSE i \in 1..Len(rows) : rows[i].Item = label /\ LastOf(rows, i)].Value
    ELSE default

\* str(detail) of a cell
CellText(c) ==
    IF IsStr(c) THEN c.str ELSE IF IsNaN(c) THEN <<"n", "a", "n">> ELSE PyStr(c)

\* isinstance(item_label, str) and "Employee" in item_label and "Details" in item_label
IsEmployeeDetailLabel(item_label) ==
    /\ IsStr(item_label)
    /\ IndexFrom(item_label.str, <<"E", "m", "p", "l", "o", "y", "e", "e">>, 1) # 0
    /\ IndexFrom(item_label.str, <<"D", "e", "t", "a", "i", "l", "s">>, 1) # 0

\* The loop over item_to_value.items() up to row k: the parsed employees so
\* far, and whether _parse_employee_detail raised.
\* One turn of that loop, for row k, after the turns before it gave prev;
\* p is what _parse_employee_detail makes of the row's Value.
ParseEmployeeRow(rows, k, prev, p) ==
    IF p.kind = "raised" THEN [raised |-> TRUE, list |-> prev.list]
    ELSE IF p.kind = "empty" THEN prev
    ELSE [raised |-> FALSE,
          list |-> Append(prev.list, [p.rec EXCEPT !.Item = rows[k].Item])]

RECURSIVE ParseEmployees(_, _)
ParseEmployees(rows, k) ==
    IF k = 0 THEN [raised |-> FALSE, list |-> <<>>]
    ELSE CHOOSE r \in
            {IF prev.raised \/ ~FirstOf(rows, k) \/ ~IsEmployeeDetailLabel(rows[k].Item)
             THEN prev
             ELSE CHOOSE q \in
                    {ParseEmployeeRow(rows, k, prev, p) :
                        p \in {_parse_employee_detail(
                                   CellText(DictGet(rows, rows[k].Item, NaN)))}} : TRUE
             : prev \in {ParseEmployees(rows, k - 1)}} : TRUE

\* ---- uploaded tables ----

\* The cells of the reports: Value texts (V_), Item texts (I_) and employee
\* detail texts (D_). D_Edited states a total edited after the export (the
\* product of its rates is 2000), D_NoTotal lacks the Total field, the Hours
\* field of D_BadHours is no number.
ReportCell ==
    [V_10000 |->
        StrCell(<<"$", "1", "0", ",", "0", "0", "0", ".", "0", "0">>),
     V_Zero |->
        StrCell(<<"$", "0", ".", "0", "0">>),
     V_300 |->
        StrCell(<<"$", "3", "0", "0", ".", "0", "0">>),
     V_50 |->
        StrCell(<<"$", "5", "0", ".", "0", "0">>),
     V_1500 |->
        StrCell(<<"$", "1", ",", "5", "0", "0", ".", "0", "0">>),
     I_Summary |->
        StrCell(<<"-", "-", "-", " ", "S", "U", "M", "M", "A", "R", "Y", " ", "-", "-", "-">>),
     I_Emp1 |->
        StrCell(<<"E", "m", "p", "l", "o", "y", "e", "e", " ", "1", " ", "D", "e", "t", "a", "i", "l", "s">>),
     I_Emp2 |->
        StrCell(<<"E", "m", "p", "l", "o", "y", "e", "e", " ", "2", " ", "D", "e", "t", "a", "i", "l", "s">>),
     D_Edited |->
        StrCell(<<"W", "a", "g", "e", ":", " ", "$", "2", "0", ".", "0", "/", "h", "r", ",", " ", "H", "o", "u", "r", "s", ":", " ", "5", ".", "0", ",", " ", "N", "i", "g", "h", "t", "s", ":", " ", "5", ",", " ", "W", "e", "e", "k", "s", ":", " ", "4", ".", "0", ",", " ", "T", "o", "t", "a", "l", ":", " ", "$", "1", ",", "9", "9", "9", ".", "9", "9">>),
     D_Second |->
        StrCell(<<"W", "a", "g", "e", ":", " ", "$", "1", "5", ".", "5", "/", "h", "r", ",", " ", "H", "o", "u", "r", "s", ":", " ", "2", ".", "5", ",", " ", "N", "i", "g", "h", "t", "s", ":", " ", "3", ",", " ", "W", "e", "e", "k", "s", ":", " ", "4", ".", "3", "3", ",", " ", "T", "o", "t", "a", "l", ":", " ", "$", "5", "0", "3", ".", "3", "6">>),
     D_NoTotal |->
        StrCell(<<"W", "a", "g", "e", ":", " ", "$", "2", "0", ".", "0", "/", "h", "r", ",", " ", "H", "o", "u", "r", "s", ":", " ", "5", ".", "0", ",", " ", "N", "i", "g", "h", "t", "s", ":", " ", "5", ",", " ", "W", "e", "e", "k", "s", ":", " ", "4", ".", "0">>),
     D_BadHours |->
        StrCell(<<"W", "a", "g", "e", ":", " ", "$", "2", "0", ".", "0", "/", "h", "r", ",", " ", "H", "o", "u", "r", "s", ":", " ", "5", ".", ".", "0", ",", " ", "N", "i", "g", "h", "t", "s", ":", " ", "5", ",", " ", "W", "e", "e", "k", "s", ":", " ", "4", ".", "0", ",", " ", "T", "o", "t", "a", "l", ":", " ", "$", "2", ",", "0", "0", "0", ".", "0", "0">>)]

\* The scalar rows of a report, one of them left out or the billing zero.
ScalarRows(scalars) ==
    (IF scalars = "no_billing" THEN <<>>
     ELSE <<Row(ProfitItem.Billing, IF scalars = "zero_billing" THEN ReportCell.V_Zero ELSE ReportCell.V_10000)>>)
    \o (IF scalars = "no_mode" THEN <<>> ELSE <<Row(ProfitItem.Mode, EMPLOYEES_CLEANING)>>)
    \o (IF scalars = "no_supply" THEN <<>> ELSE <<Row(ProfitItem.Supply, ReportCell.V_300)>>)
    \o (IF scalars = "no_other" THEN <<>> ELSE <<Row(ProfitItem.Other, ReportCell.V_50)>>)

\* The labor rows of a report.
LaborRows(labor) ==
    CASE labor = "total" -> <<Row(ProfitItem.TotalLabor, ReportCell.V_1500)>>
      [] labor = "employee" -> <<Row(ProfitItem.TotalLabor, ReportCell.V_1500), Row(ReportCell.I_Emp1, ReportCell.D_Edited)>>
      [] labor = "two" -> <<Row(ReportCell.I_Emp1, ReportCell.D_Edited), Row(ReportCell.I_Emp2, ReportCell.D_Second)>>
      [] labor = "malformed" -> <<Row(ProfitItem.TotalLabor, ReportCell.V_1500), Row(ReportCell.I_Emp1, ReportCell.D_NoTotal)>>
      [] labor = "raising" -> <<Row(ProfitItem.TotalLabor, ReportCell.V_1500), Row(ReportCell.I_Emp1, ReportCell.D_BadHours)>>
      [] OTHER -> <<>>

\* The files a user may upload, by name: reports with one scalar row left
\* out or changed, reports with different labor rows, and a table without
\* the Value column.
FileName(scalars, labor) == [scalars |-> scalars, labor |-> labor]
NoValueFile == FileName("no_value_column", "none")
ProfitUploads ==
    {FileName(s, "total") :
        s \in {"all", "zero_billing", "no_billing", "no_supply"}}
    \cup {FileName("all", l) : l \in {"none", "employee", "two", "malformed", "raising"}}
    \cup {NoValueFile}

\* pd.read_csv(uploaded_file): the table's columns and rows.
ProfitFile(name) ==
    IF name = NoValueFile THEN [name |-> name, columns |-> {"Item", "Amount"}, rows |-> <<>>]
    ELSE [name |-> name,
          columns |-> {"Item", "Value"},
          rows |-> <<Row(ReportCell.I_Summary, NaN)>> \o ScalarRows(name.scalars) \o LaborRows(name.labor)]

\* The employee loop over each file's rows (it reads nothing but the file),
\* as pairs <<file name, outcome of the loop>>.
ParsedEmployeesOf ==
    {<<name, ParseEmployees(ProfitFile(name).rows, Len(ProfitFile(name).rows))>> :
        name \in ProfitUploads}

\* Lines 318-354 on an uploaded table, v being the values of the running
\* script: the payload to store (ok), or the error shown.
ImportFile(file, v) ==
    IF ~({"Item", "Value"} \subseteq file.columns) THEN [kind |-> "schema"]
    ELSE CHOOSE r \in
            {IF pe.raised THEN [kind |-> "exception"]
             ELSE [kind |-> "ok",
                   payload |->
                     [monthly_billing |->
                         _parse_money(DictGet(rows, ProfitItem.Billing, v.monthly_billing)),
                      supply_cost |-> _parse_money(DictGet(rows, ProfitItem.Supply, v.supply_cost)),
                      other_cost |-> _parse_money(DictGet(rows, ProfitItem.Other, v.other_cost)),
                      cleaning_mode |-> DictGet(rows, ProfitItem.Mode, v.cleaning_mode),
                      employee_records |-> pe.list,
                      labor_cost |->
                         IF pe.list # <<>> THEN SumMonthlyCost(pe.list)
                         ELSE _parse_money(DictGet(rows, ProfitItem.TotalLabor, v.labor_cost))]]
             : pe \in {q[2] : q \in {x \in ParsedEmployeesOf : x[1] = file.name}},
               rows \in {file.rows}} : TRUE

\* ---- the page script ----

\* A run that drops the payload once the uploader is empty.
ProfitPass_ClearedOnRemove(w, imported, file) ==
    CHOOSE pass \in
        {[results |-> Calculate(v),
          imported |-> IF r.kind = "ok" THEN r.payload
                       ELSE IF IsNone(file) THEN None ELSE imported,
          msg |-> r.kind,
          rerun |-> r.kind = "ok"] :
            <<v, r>> \in
                {<<x, IF IsNone(file) THEN [kind |-> "none"]
                      ELSE ImportFile(ProfitFile(file), x)>> :
                    x \in {ApplyImported(w, imported)}}} : TRUE

\* The script from its top to the import block, and the import block: the
\* results of the run, the payload the session holds after it, the message
\* the import block showed, and whether it called st.rerun().
ProfitPass(w, imported, file) ==
    CHOOSE pass \in
        {[results |-> Calculate(v),
          imported |-> IF r.kind = "ok" THEN r.payload ELSE imported,
          msg |-> r.kind,
          rerun |-> r.kind = "ok"] :
            <<v, r>> \in
                {<<x, IF IsNone(file) THEN [kind |-> "none"]
                      ELSE ImportFile(ProfitFile(file), x)>> :
                    x \in {ApplyImported(w, imported)}}} : TRUE

\* One user interaction: the script runs; when the import block stored a
\* payload it reruns the script, which then shows the imported values.
\* (In the rerun the uploader still holds the file; reading it again gives
\* the same payload, failing to read it leaves the payload: the session
\* ends in the same state.)
ProfitScriptRun(w, file) ==
    \E first \in {ProfitPass(w, imported_values, file)} :
        \E last \in {IF first.rerun THEN ProfitPass(w, first.imported, file) ELSE first} :
            /\ sidebar' = w
            /\ uploaded_file' = file
            /\ imported_values' = last.imported
            /\ results' = last.results
            /\ upload_msg' = first.msg
            /\ UNCHANGED <<depVars, detailVars, upgVars>>

SidebarDefaults ==
    [monthly_billing |-> RInt(0), supply_cost |-> RInt(0), other_cost |-> RInt(0),
     upgrade_fee |-> RInt(0), cleaning_mode |-> SELF_CLEANING, employees |-> <<>>]

\* The page after its first run: the widgets at their defaults.
InitProfit ==
    /\ sidebar = SidebarDefaults
    /\ uploaded_file = None
    /\ imported_values = None
    /\ results = Calculate(ApplyImported(SidebarDefaults, None))
    /\ upload_msg = "none"

SetMonthlyBilling ==
    \E b \in SidebarChoices.monthly_billing \ {sidebar.monthly_billing} :
        ProfitScriptRun([sidebar EXCEPT !.monthly_billing = b], uploaded_file)

SetSupplyCost ==
    \E c \in SidebarChoices.supply_cost \ {sidebar.supply_cost} :
        ProfitScriptRun([sidebar EXCEPT !.supply_cost = c], uploaded_file)

SetOtherCost ==
    \E c \in SidebarChoices.other_cost \ {sidebar.other_cost} :
        ProfitScriptRun([sidebar EXCEPT !.other_cost = c], uploaded_file)

SetUpgradeFee ==
    \E f \in SidebarChoices.upgrade_fee \ {sidebar.upgrade_fee} :
        ProfitScriptRun([sidebar EXCEPT !.upgrade_fee = f], uploaded_file)

SetCleaningMode ==
    \E m \in CleaningModes \ {sidebar.cleaning_mode} :
        ProfitScriptRun([sidebar EXCEPT !.cleaning_mode = m], uploaded_file)

\* "Number of Employees" goes up by one: a new block of widgets at defaults.
AddEmployee ==
    /\ Len(sidebar.employees) < MaxEmployees
    /\ ProfitScriptRun(
          [sidebar EXCEPT !.employees = Append(@, DefaultEmployeeInputs)], uploaded_file)

\* "Number of Employees" goes down by one: the last block disappears.
RemoveEmployee ==
    /\ sidebar.employees # <<>>
    /\ ProfitScriptRun(
          [sidebar EXCEPT !.employees = SubSeq(@, 1, Len(@) - 1)], uploaded_file)

\* The user fills in the inputs of one employee.
EditEmployee ==
    \E i \in 1..Len(sidebar.employees) :
        \E e \in EmployeeChoices \ {sidebar.employees[i]} :
            ProfitScriptRun([sidebar EXCEPT !.employees[i] = e], uploaded_file)

\* The user puts a CSV file into the uploader.
UploadProfitReport ==
    \E f \in ProfitUploads \ {uploaded_file} : ProfitScriptRun(sidebar, f)

\* The user removes the file from the uploader.
RemoveProfitReport ==
    /\ ~IsNone(uploaded_file)
    /\ ProfitScriptRun(sidebar, None)

NextProfit ==
    \/ SetMonthlyBilling
    \/ SetSupplyCost
    \/ SetOtherCost
    \/ SetUpgradeFee
    \/ SetCleaningMode
    \/ AddEmployee
    \/ RemoveEmployee
    \/ EditEmployee
    \/ UploadProfitReport
    \/ RemoveProfitReport

\* ------------------------------------------------------------------------
\* Upgrade Fee page
\* ------------------------------------------------------------------------

\* default_state (lines 26-33)
default_state ==
    [billing |-> RInt(0), multiplier |-> RInt(4), credits |-> RInt(0),
     dp_pct |-> RInt(25), interest_rate |-> RInt(10), terms |-> PyInt(0)]

\* What the user may type into the six number inputs (none of them has a
\* min_value: negative numbers are accepted).
UpgradeChoices ==
    [billing |-> {RInt(0), RInt(5000), RInt(-5000)},
     multiplier |-> {RInt(4), Dec(15, 1)},
     credits |-> {RInt(0), RInt(1000), RInt(-500)},
     dp_pct |-> {RInt(25), RInt(0)},
     interest_rate |-> {RInt(10), RInt(0)},
     terms |-> {PyInt(0), PyInt(12), PyInt(-1)}]

\* _parse_number(value) (lines 38-47): a number as a float, text stripped of
\* $ , % and blanks and converted, 0.0 when that fails.
_parse_number(value) ==
    IF IsNaN(value) THEN NaN
    ELSE IF IsNum(value) THEN ToFloat(value)
    ELSE LET cleaned == Strip(RemoveChars(value.str, {"$", ",", "%"}))
             f == ParseFloat(cleaned)
         IN  IF f.ok THEN f.val ELSE RZero

\* int(x) of a float: truncation towards zero
IntOf(x) == PyInt((IF x.n < 0 THEN -1 ELSE 1) * (Abs(x.n) \div x.d))

\* The calculation with the interest taken on the net amount instead of the
\* principal.
UpgradeCalc_InterestOnNet(s) ==
    LET upgrade_total == RMul(s.billing, s.multiplier)
        net_after_credits == RSub(upgrade_total, s.credits)
        dp_amount == RDiv(RMul(net_after_credits, s.dp_pct), RInt(100))
        amt_financed_base == RSub(net_after_credits, dp_amount)
        interest_amt == RDiv(RMul(net_after_credits, s.interest_rate), RInt(100))
        total_financed == RAdd(amt_financed_base, interest_amt)
    IN  [billing |-> s.billing,
         multiplier |-> s.multiplier,
         credits |-> s.credits,
         terms |-> s.terms,
         upgrade_total |-> upgrade_total,
         net_after_credits |-> net_after_credits,
         dp_amount |-> dp_amount,
         amt_financed_base |-> amt_financed_base,
         interest_amt |-> interest_amt,
         total_financed |-> total_financed,
         monthly_payment |->
            IF s.terms.n > 0 THEN RDiv(total_financed, s.terms) ELSE PyInt(0),
         divided |-> s.terms.n > 0]

\* Lines 103-109: the calculation over the six inputs, its results and
\* whether it divided by terms.
UpgradeCalc(s) ==
    LET upgrade_total == RMul(s.billing, s.multiplier)
        net_after_credits == RSub(upgrade_total, s.credits)
        dp_amount == RDiv(RMul(net_after_credits, s.dp_pct), RInt(100))
        amt_financed_base == RSub(net_after_credits, dp_amount)
        interest_amt == RDiv(RMul(amt_financed_base, s.interest_rate), RInt(100))
        total_financed == RAdd(amt_financed_base, interest_amt)
    IN  [billing |-> s.billing,
         multiplier |-> s.multiplier,
         credits |-> s.credits,
         terms |-> s.terms,
         upgrade_total |-> upgrade_total,
         net_after_credits |-> net_after_credits,
         dp_amount |-> dp_amount,
         amt_financed_base |-> amt_financed_base,
         interest_amt |-> interest_amt,
         total_financed |-> total_financed,
         monthly_payment |->
            IF s.terms.n > 0 THEN RDiv(total_financed, s.terms) ELSE PyInt(0),
         divided |-> s.terms.n > 0]

\* The Description texts of the breakdown table (lines 132-144) and the
\* labels handle_upload looks up (lines 16-20).
UpgradeItem ==
    [Billing |->
        StrCell(<<"C", "o", "n", "t", "r", "a", "c", "t", " ", "M", "o", "n", "t", "h", "l", "y", " ", "B", "i", "l", "l", "i", "n", "g">>),
     Multiplier |->
        StrCell(<<"M", "u", "l", "t", "i", "p", "l", "i", "e", "r">>),
     Subtotal |->
        StrCell(<<"U", "p", "g", "r", "a", "d", "e", " ", "S", "u", "b", "t", "o", "t", "a", "l">>),
     Credits |->
        StrCell(<<"C", "r", "e", "d", "i", "t", "s">>),
     Net |->
        StrCell(<<"N", "e", "t", " ", "A", "m", "o", "u", "n", "t", " ", "(", "A", "f", "t", "e", "r", " ", "C", "r", "e", "d", "i", "t", "s", ")">>),
     DownPayment |->
        StrCell(<<"D", "o", "w", "n", " ", "P", "a", "y", "m", "e", "n", "t", " ", "A", "m", "o", "u", "n", "t">>),
     Principal |->
        StrCell(<<"A", "m", "o", "u", "n", "t", " ", "F", "i", "n", "a", "n", "c", "e", "d", " ", "(", "P", "r", "i", "n", "c", "i", "p", "a", "l", ")">>),
     Interest |->
        StrCell(<<"I", "n", "t", "e", "r", "e", "s", "t", " ", "A", "m", "o", "u", "n", "t">>),
     TotalFinanced |->
        StrCell(<<"T", "o", "t", "a", "l", " ", "F", "i", "n", "a", "n", "c", "e", "d", " ", "A", "m", "o", "u", "n", "t">>),
     Terms |->
        StrCell(<<"P", "a", "y", "m", "e", "n", "t", " ", "T", "e", "r", "m", "s", " ", "(", "M", "o", "n", "t", "h", "s", ")">>),
     Monthly |->
        StrCell(<<"E", "s", "t", "i", "m", "a", "t", "e", "d", " ", "M", "o", "n", "t", "h", "l", "y", " ", "U", "p", "g", "r", "a", "d", "e", " ", "F", "e", "e">>),
     InterestRate |->
        StrCell(<<"I", "n", "t", "e", "r", "e", "s", "t", " ", "R", "a", "t", "e", " ", "%">>)]

DescRow(description, value) == [Description |-> description, Value |-> value]

\* Lines 131-160 and 209: the breakdown table of a run as the CSV holds it and
\* pd.read_csv gives it back (a column of numbers: every cell a float).
ExportedEstimate(r) ==
    <<DescRow(UpgradeItem.Billing, ToFloat(r.billing)),
      DescRow(UpgradeItem.Multiplier, ToFloat(r.multiplier)),
      DescRow(UpgradeItem.Subtotal, ToFloat(r.upgrade_total)),
      DescRow(UpgradeItem.Credits, ToFloat(r.credits)),
      DescRow(UpgradeItem.Net, ToFloat(r.net_after_credits)),
      DescRow(UpgradeItem.DownPayment, ToFloat(r.dp_amount)),
      DescRow(UpgradeItem.Principal, ToFloat(r.amt_financed_base)),
      DescRow(UpgradeItem.Interest, ToFloat(r.interest_amt)),
      DescRow(UpgradeItem.TotalFinanced, ToFloat(r.total_financed)),
      DescRow(UpgradeItem.Terms, ToFloat(r.terms)),
      DescRow(UpgradeItem.Monthly, ToFloat(r.monthly_payment))>>

\* The inputs of the estimate the "exported" file was downloaded from.
ExportedInputs ==
    [billing |-> RInt(5000), multiplier |-> RInt(4), credits |-> RInt(1000),
     dp_pct |-> RInt(25), interest_rate |-> RInt(10), terms |-> PyInt(12)]

\* A table typed by hand, every Value a text.
TextEstimate ==
    <<DescRow(UpgradeItem.Billing, StrCell(<<"$", "2", ",", "0", "0", "0", ".", "0", "0">>)),
      DescRow(UpgradeItem.Multiplier, StrCell(<<"1", ".", "5">>)),
      DescRow(UpgradeItem.Credits, StrCell(<<"n", "/", "a">>)),
      DescRow(UpgradeItem.InterestRate, StrCell(<<"7", "%">>)),
      DescRow(UpgradeItem.Terms, StrCell(<<"6">>))>>

\* A table of numbers whose payment terms cell is empty.
EmptyTermsEstimate ==
    <<DescRow(UpgradeItem.Billing, RInt(2000)),
      DescRow(UpgradeItem.Multiplier, RInt(3)),
      DescRow(UpgradeItem.Credits, RInt(500)),
      DescRow(UpgradeItem.Terms, NaN)>>

\* A table with the credits row only.
CreditsOnlyEstimate == <<DescRow(UpgradeItem.Credits, RInt(1000))>>

\* The inputs of the estimates that were downloaded earlier: the example, and
\* the example financed without interest.
ExportedRecords == {ExportedInputs, [ExportedInputs EXCEPT !.interest_rate = RInt(0)]}

\* The files a user may put into the uploader, by name; a downloaded estimate
\* is named by the inputs it was exported from.
UpgradeUpload(name) == [upload |-> name]
ExportedUpload(inputs) == [upload |-> "exported", from |-> inputs]
UpgradeUploads ==
    {UpgradeUpload(n) : n \in {"text", "credits_only", "empty_terms", "no_value_column"}}
    \cup {ExportedUpload(e) : e \in ExportedRecords}

\* pd.read_csv(st.session_state.upgrade_fee_import)
UpgradeFile(file) ==
    CASE file.upload = "exported" ->
            [columns |-> {"Description", "Value"},
             rows |-> ExportedEstimate(UpgradeCalc(file.from))]
      [] file.upload = "text" -> [columns |-> {"Description", "Value"}, rows |-> TextEstimate]
      [] file.upload = "credits_only" ->
            [columns |-> {"Description", "Value"}, rows |-> CreditsOnlyEstimate]
      [] file.upload = "empty_terms" ->
            [columns |-> {"Description", "Value"}, rows |-> EmptyTermsEstimate]
      [] OTHER -> [columns |-> {"Description", "Amount"}, rows |-> <<>>]

\* dict(zip(Description, Value)).get(label, default): the last row wins.
DescGet(rows, label, default) ==
    IF \E i \in 1..Len(rows) : rows[i].Description = label
    THEN rows[CHOOSE i \in 1..Len(rows) :
                 /\ rows[i].Description = label
                 /\ \A j \in (i + 1)..Len(rows) : rows[j].Description # label].Value
    ELSE default

\* handle_upload (lines 6-24), the uploader's on_change callback: the session
\* state it leaves and what it showed. The five assignments happen in order;
\* int() of an empty cell (NaN) raises after the first four.
handle_upload(state, file) ==
    IF IsNone(file) THEN [state |-> state, msg |-> "none"]
    ELSE LET imported_df == UpgradeFile(file)
             rows == imported_df.rows
         IN  IF ~({"Description", "Value"} \subseteq imported_df.columns)
             THEN [state |-> state, msg |-> "none"]
             ELSE LET four ==
                          [state EXCEPT
                              !.billing = _parse_number(DescGet(rows, UpgradeItem.Billing, RInt(0))),
                              !.multiplier = _parse_number(DescGet(rows, UpgradeItem.Multiplier, RInt(4))),
                              !.credits = _parse_number(DescGet(rows, UpgradeItem.Credits, RInt(0))),
                              !.interest_rate =
                                  _parse_number(DescGet(rows, UpgradeItem.InterestRate, RInt(10)))]
                      t == _parse_number(DescGet(rows, UpgradeItem.Terms, PyInt(0)))
                  IN  IF IsNaN(t) THEN [state |-> four, msg |-> "error"]
                      ELSE [state |-> [four EXCEPT !.terms = IntOf(t)], msg |-> "toast"]

\* One run of the page script over the session state.
UpgradeScriptRun(state, file, msg) ==
    /\ session_state' = state
    /\ upgrade_fee_import' = file
    /\ upgrade_results' = UpgradeCalc(state)
    /\ upgrade_msg' = msg
    /\ UNCHANGED <<depVars, detailVars, profitVars>>

\* The page after its first run.
UpgradeIdle ==
    /\ session_state = default_state
    /\ upgrade_fee_import = None
    /\ upgrade_results = UpgradeCalc(default_state)
    /\ upgrade_msg = "none"

SetBilling ==
    \E x \in UpgradeChoices.billing \ {session_state.billing} :
        UpgradeScriptRun([session_state EXCEPT !.billing = x], upgrade_fee_import, "none")

SetMultiplier ==
    \E x \in UpgradeChoices.multiplier \ {session_state.multiplier} :
        UpgradeScriptRun([session_state EXCEPT !.multiplier = x], upgrade_fee_import, "none")

SetCredits ==
    \E x \in UpgradeChoices.credits \ {session_state.credits} :
        UpgradeScriptRun([session_state EXCEPT !.credits = x], upgrade_fee_import, "none")

SetDownPayment ==
    \E x \in UpgradeChoices.dp_pct \ {session_state.dp_pct} :
        UpgradeScriptRun([session_state EXCEPT !.dp_pct = x], upgrade_fee_import, "none")

SetInterestRate ==
    \E x \in UpgradeChoices.interest_rate \ {session_state.interest_rate} :
        UpgradeScriptRun([session_state EXCEPT !.interest_rate = x], upgrade_fee_import, "none")

SetTerms ==
    \E x \in UpgradeChoices.terms \ {session_state.terms} :
        UpgradeScriptRun([session_state EXCEPT !.terms = x], upgrade_fee_import, "none")

\* The user puts a file into the uploader: the callback runs, then the script.
UploadUpgradeEstimate ==
    \E f \in UpgradeUploads \ {upgrade_fee_import} :
        \E done \in {handle_upload(session_state, f)} :
            UpgradeScriptRun(done.state, f, done.msg)

\* The user removes the file: the callback runs with no file, then the script.
RemoveUpgradeEstimate ==
    /\ ~IsNone(upgrade_fee_import)
    /\ \E done \in {handle_upload(session_state, None)} :
          UpgradeScriptRun(done.state, None, done.msg)

NextUpgrade ==
    \/ SetBilling
    \/ SetMultiplier
    \/ SetCredits
    \/ SetDownPayment
    \/ SetInterestRate
    \/ SetTerms
    \/ UploadUpgradeEstimate
    \/ RemoveUpgradeEstimate

\* ------------------------------------------------------------------------
\* Specifications: one per page, the other pages' state left at rest
\* ------------------------------------------------------------------------

\* The Depreciation Schedule page in use.
InitDepPage == DepIdle /\ DetailIdle /\ InitProfit /\ UpgradeIdle
SpecDep == InitDepPage /\ [][NextDep]_vars

\* An employee record on its way through export and import.
InitDetailPage == InitDetail /\ DepIdle /\ InitProfit /\ UpgradeIdle
SpecDetail == InitDetailPage /\ [][NextDetail]_vars

\* The Profit Analysis page in use.
InitProfitPage == InitProfit /\ DepIdle /\ DetailIdle /\ UpgradeIdle
SpecProfit == InitProfitPage /\ [][NextProfit]_vars

\* The Upgrade Fee page in use.
InitUpgradePage == UpgradeIdle /\ DepIdle /\ DetailIdle /\ InitProfit
SpecUpgrade == InitUpgradePage /\ [][NextUpgrade]_vars

\* ------------------------------------------------------------------------
\* Employee detail text: properties
\* ------------------------------------------------------------------------

\* C6: parsing the exported detail text of a valid employee record yields a
\* record whose hourly wage, hours per night, nights per week, weeks per
\* month and monthly cost equal those of the record.
C6_DetailRoundTrip ==
    detail_pc = "parsed_emp" =>
        /\ parsed_emp.kind = "ok"
        /\ NumEq(parsed_emp.rec.HourlyWage, entered_emp.HourlyWage)
        /\ NumEq(parsed_emp.rec.HoursNight, entered_emp.HoursNight)
        /\ NumEq(parsed_emp.rec.NightsWeek, entered_emp.NightsWeek)
        /\ NumEq(parsed_emp.rec.WeeksMonth, entered_emp.WeeksMonth)
        /\ NumEq(parsed_emp.rec.MonthlyCost, entered_emp.MonthlyCost)

\* What does hold of the round trip: the four rate fields come back as they
\* were, the monthly cost comes back rounded to cents.
DetailRoundTripToCents ==
    detail_pc = "parsed_emp" =>
        /\ parsed_emp.kind = "ok"
        /\ NumEq(parsed_emp.rec.HourlyWage, entered_emp.HourlyWage)
        /\ NumEq(parsed_emp.rec.HoursNight, entered_emp.HoursNight)
        /\ NumEq(parsed_emp.rec.NightsWeek, entered_emp.NightsWeek)
        /\ NumEq(parsed_emp.rec.WeeksMonth, entered_emp.WeeksMonth)
        /\ LET diff == RSub(parsed_emp.rec.MonthlyCost, entered_emp.MonthlyCost)
           IN  200 * Abs(diff.n) <= diff.d

\* ------------------------------------------------------------------------
\* Profit Analysis: properties
\* ------------------------------------------------------------------------

\* 10% + 5% + 5.5% + 0%
FeeShare == Rat(205, 1000)

\* C7: in every run total_cost = supply_cost + other_cost + labor_cost +
\* monthly_billing * (10% + 5% + 5.5% + 0%), net_profit = monthly_billing -
\* total_cost, and profit_margin = net_profit / monthly_billing * 100 when
\* monthly_billing > 0; the upgrade fee is no term of any of them (billing
\* 10000, supply 300, other 0, labor 2000 give 4350, 5650 and 56.5).
C7_ProfitFormula ==
    /\ results.total_cost
          = NAdd(NAdd(NAdd(results.supply_cost, results.other_cost), results.labor_cost),
                 NMul(results.monthly_billing, FeeShare))
    /\ results.net_profit = NSub(results.monthly_billing, results.total_cost)
    /\ NPos(results.monthly_billing) =>
          results.profit_margin
              = NMul(NDiv(results.net_profit, results.monthly_billing), RInt(100))
    /\ (/\ results.monthly_billing = RInt(10000)
        /\ results.supply_cost = RInt(300)
        /\ results.other_cost = RInt(0)
        /\ results.labor_cost = RInt(2000)) =>
          /\ results.total_cost = RInt(4350)
          /\ results.net_profit = RInt(5650)
          /\ results.profit_margin = Dec(565, 1)

\* The example of the claim, entered live with an upgrade fee on top.
C7_Witness ==
    /\ IsNone(imported_values)
    /\ sidebar.monthly_billing = RInt(10000)
    /\ sidebar.supply_cost = RInt(300)
    /\ sidebar.other_cost = RInt(0)
    /\ sidebar.upgrade_fee = RInt(100)
    /\ sidebar.employees # <<>>
    /\ results.labor_cost = RInt(2000)
    /\ results.total_cost = RInt(4350)
    /\ results.profit_margin = Dec(565, 1)

\* C8: whenever the monthly billing of a run is 0, entered live or applied
\* from an import, the profit margin is 0, the labor cost percentage is 0 and
\* nothing was divided by the billing.
C8_ZeroBillingNoDivision ==
    (~IsNaN(results.monthly_billing) /\ results.monthly_billing.n = 0) =>
        /\ NumEq(results.profit_margin, RZero)
        /\ NumEq(results.labor_cost_percentage, RZero)
        /\ results.divisions = {}

\* A zero billing applied from an import over a live billing that is not
\* zero, with labor and supply costs that are not zero.
C8_Witness ==
    /\ ~IsNone(imported_values)
    /\ sidebar.monthly_billing.n > 0
    /\ results.monthly_billing.n = 0
    /\ results.labor_cost.n > 0
    /\ results.supply_cost.n > 0
    /\ results.divisions = {}

\* The labor cost a report's rows stand for: the Total fields of its employee
\* detail rows that parse (1,999.99 and 503.36), or else its 'Total Labor
\* Cost' item (1,500.00).
ExpectedLaborCost(labor) ==
    CASE labor = "employee" -> Dec(199999, 2)
      [] labor = "two" -> RAdd(Dec(199999, 2), Dec(50336, 2))
      [] OTHER -> RInt(1500)

\* C10: after an import the labor cost of the calculation is the sum of the
\* imported employees' monthly costs as the file states them (not wage x
\* hours x nights x weeks) when at least one employee detail row parsed, and
\* the value of the 'Total Labor Cost' item otherwise.
C10_ImportedLaborCost ==
    (upload_msg = "ok" /\ uploaded_file.labor # "none") =>
        /\ results.labor_cost = ExpectedLaborCost(uploaded_file.labor)
        /\ Len(imported_values.employee_records)
              = (CASE uploaded_file.labor = "employee" -> 1
                   [] uploaded_file.labor = "two" -> 2
                   [] OTHER -> 0)

\* A report whose employee row states a total (1,999.99) that is neither the
\* product of its rates (2,000) nor the report's 'Total Labor Cost' (1,500),
\* imported over a sidebar that has an employee of its own.
C10_Witness ==
    /\ upload_msg = "ok"
    /\ uploaded_file.labor = "employee"
    /\ sidebar.employees # <<>>
    /\ results.labor_cost = Dec(199999, 2)
    /\ results.employee_records[1].HourlyWage = RInt(20)

\* C11: an import is a merge. For each of monthly_billing, supply_cost,
\* other_cost, cleaning_mode and the labor cost, the value the calculation
\* uses after the import is the one the uploaded table states when the table
\* has the item, and the value that was current just before the import when
\* it has not.
C11_ImportIsMerge ==
    [][upload_msg' = "ok" =>
          LET f == uploaded_file'
          IN  /\ results'.monthly_billing
                    = (CASE f.scalars = "no_billing" -> results.monthly_billing
                         [] f.scalars = "zero_billing" -> RInt(0)
                         [] OTHER -> RInt(10000))
              /\ results'.supply_cost
                    = (IF f.scalars = "no_supply" THEN results.supply_cost ELSE RInt(300))
              /\ results'.other_cost
                    = (IF f.scalars = "no_other" THEN results.other_cost ELSE RInt(50))
              /\ results'.cleaning_mode
                    = (IF f.scalars = "no_mode" THEN results.cleaning_mode
                       ELSE EMPLOYEES_CLEANING)
              /\ results'.labor_cost
                    = (IF f.labor = "none" THEN results.labor_cost
                       ELSE ExpectedLaborCost(f.labor))]_vars

\* A report without the billing item, imported while the billing in use (from
\* an earlier import) is not the one in the sidebar: the billing in use stays.
C11_Witness ==
    /\ upload_msg = "ok"
    /\ uploaded_file.scalars = "no_billing"
    /\ results.monthly_billing = RInt(10000)
    /\ sidebar.monthly_billing # RInt(10000)
    /\ results.supply_cost = RInt(300)

\* The Profit Analysis half of C12: a table without the Item or the Value
\* column gets the error message and leaves imported_values as it was.
ProfitMissingColumnRejected ==
    [][uploaded_file' = NoValueFile =>
          /\ upload_msg' = "schema"
          /\ imported_values' = imported_values]_vars

\* C16: once an import has succeeded the payload is never cleared. In every
\* later run the session still holds a payload, the same one unless that run
\* imported again, and the calculation uses the payload's monthly_billing,
\* supply_cost, other_cost and cleaning_mode, and for the labor cost the sum
\* of the payload's employees or else the payload's labor_cost, whatever
\* the sidebar holds.
C16_PayloadPersists ==
    [][~IsNone(imported_values) =>
          /\ ~IsNone(imported_values')
          /\ upload_msg' # "ok" => imported_values' = imported_values
          /\ results'.monthly_billing = imported_values'.monthly_billing
          /\ results'.supply_cost = imported_values'.supply_cost
          /\ results'.other_cost = imported_values'.other_cost
          /\ results'.cleaning_mode = imported_values'.cleaning_mode
          /\ results'.labor_cost
                = (IF imported_values'.employee_records # <<>>
                   THEN SumMonthlyCost(imported_values'.employee_records)
                   ELSE imported_values'.labor_cost)]_vars

\* After an import the file was taken out of the uploader and the sidebar
\* was changed: billing, mode and labor cost in use are still the imported
\* ones, none of them what the sidebar holds.
C16_Witness ==
    /\ ~IsNone(imported_values)
    /\ IsNone(uploaded_file)
    /\ upload_msg = "none"
    /\ sidebar.monthly_billing = RInt(4000)
    /\ results.monthly_billing = RInt(10000)
    /\ sidebar.cleaning_mode = SELF_CLEANING
    /\ results.cleaning_mode = EMPLOYEES_CLEANING
    /\ sidebar.employees # <<>>
    /\ SumMonthlyCost(SidebarEmployees(sidebar.employees)) = RInt(2000)
    /\ results.labor_cost = RInt(1500)

\* C15: for every result with monthly_billing > 0 and either cleaning mode
\* exactly one advisory is selected: the loss warning if net_profit < 0,
\* otherwise the tier profit_margin falls into among the buckets delimited by
\* 5, 10 and 20 percent; no margin, the boundaries included, is left without
\* an advisory.
C15_OneAdvisory ==
    (NPos(results.monthly_billing) /\ results.cleaning_mode \in CleaningModes) =>
        /\ results.advisory # "none"
        /\ results.advisory = "loss" <=> NBelow(results.net_profit, 0)

\* What holds of C15: an advisory is shown unless the margin is exactly 20,
\* or from 10 to 20 with employees doing all cleaning.
AdvisoryOutsideGaps ==
    (/\ NPos(results.monthly_billing)
     /\ results.cleaning_mode \in CleaningModes
     /\ results.profit_margin # RInt(20)
     /\ ~(/\ results.cleaning_mode = EMPLOYEES_CLEANING
          /\ ~NBelow(results.profit_margin, 10)
          /\ ~NAbove(results.profit_margin, 20))) =>
        /\ results.advisory # "none"
        /\ results.advisory = "loss" <=> NBelow(results.net_profit, 0)


\* ------------------------------------------------------------------------

\* C9: in every run upgrade_total = billing * multiplier, net_after_credits =
\* upgrade_total - credits, down_payment = net_after_credits * dp_pct / 100,
\* principal = net_after_credits - down_payment, interest = principal *
\* interest_rate / 100, total_financed = principal + interest, and
\* monthly_payment = total_financed / terms when terms > 0 and 0 when terms
\* = 0, negative billing and credits included (5000, 4, 1000, 25, 10 and 12
\* months give 1306.25).
C9_UpgradeFormula ==
    LET s == session_state
        r == upgrade_results
    IN  /\ r.upgrade_total = RMul(s.billing, s.multiplier)
        /\ r.net_after_credits = RSub(r.upgrade_total, s.credits)
        /\ r.dp_amount = RDiv(RMul(r.net_after_credits, s.dp_pct), RInt(100))
        /\ r.amt_financed_base = RSub(r.net_after_credits, r.dp_amount)
        /\ r.interest_amt = RDiv(RMul(r.amt_financed_base, s.interest_rate), RInt(100))
        /\ r.total_financed = RAdd(r.amt_financed_base, r.interest_amt)
        /\ s.terms.n > 0 => NumEq(r.monthly_payment, RDiv(r.total_financed, s.terms))
        /\ s.terms.n = 0 => NumEq(r.monthly_payment, RZero) /\ ~r.divided
        /\ s = ExportedInputs =>
              /\ r.total_financed = RInt(15675)
              /\ NumEq(r.monthly_payment, Dec(130625, 2))

\* The example of the claim.
C9_Witness ==
    /\ session_state = ExportedInputs
    /\ NumEq(upgrade_results.monthly_payment, Dec(130625, 2))

\* C12: an uploaded table that lacks a required column is rejected as a
\* whole: the rejection is shown to the user and no field of the session's
\* input state changes. (The Upgrade Fee half; the Profit Analysis half is
\* ProfitMissingColumnRejected.)
C12_MissingColumnRejected ==
    [][(/\ upgrade_fee_import' # upgrade_fee_import
        /\ upgrade_fee_import' = UpgradeUpload("no_value_column")) =>
          /\ upgrade_msg' = "error"
          /\ session_state' = session_state]_vars

\* The labels an uploaded table has among those handle_upload looks up.
MatchedFields(file) ==
    CASE file.upload = "exported" -> {"billing", "multiplier", "credits", "terms"}
      [] file.upload = "text" -> {"billing", "multiplier", "credits", "interest_rate", "terms"}
      [] file.upload = "credits_only" -> {"credits"}
      [] OTHER -> {}

\* C13: after an import every one of the six input fields whose label is not
\* matched in the uploaded table holds the component's default for it
\* (billing 0.0, multiplier 4.0, credits 0.0, dp_pct 25.0, interest_rate 10.0,
\* terms 0).
C13_UnmatchedFieldsDefault ==
    upgrade_msg = "toast" =>
        \A k \in DOMAIN default_state \ MatchedFields(upgrade_fee_import) :
            session_state[k] = default_state[k]

\* What holds of C13: the five fields handle_upload assigns hold their
\* defaults when unmatched (dp_pct is not assigned and keeps its value).
AssignedFieldsDefault ==
    upgrade_msg = "toast" =>
        \A k \in (DOMAIN default_state \ {"dp_pct"}) \ MatchedFields(upgrade_fee_import) :
            session_state[k] = default_state[k]

\* C14: importing the CSV exported from an input record reconstructs that
\* record in the session, and the run after the import reproduces the
\* exported results.
C14_UpgradeRoundTrip ==
    (upgrade_msg = "toast" /\ upgrade_fee_import.upload = "exported") =>
        /\ session_state = upgrade_fee_import.from
        /\ upgrade_results = UpgradeCalc(upgrade_fee_import.from)

\* What holds of C14: the four fields the export table states come back.
ExportedFieldsRoundTrip ==
    (upgrade_msg = "toast" /\ upgrade_fee_import.upload = "exported") =>
        \A k \in {"billing", "multiplier", "credits", "terms"} :
            NumEq(session_state[k], upgrade_fee_import.from[k])

\* C17: an import is atomic. Whenever handle_upload ends in its error
\* branch, the session's input record is the record before the upload.
C17_ImportAtomic ==
    [][upgrade_msg' = "error" => session_state' = session_state]_vars


\* ------------------------------------------------------------------------

RECURSIVE SumOver(_, _)
SumOver(S, f) ==
    IF S = {} THEN RZero
    ELSE LET x == CHOOSE y \in S : TRUE
         IN  RAdd(f[x], SumOver(S \ {x}, f))

RowTotals == [k \in 1..Len(full_schedule) |-> full_schedule[k].Total]
AssetCostsOf(rows) == [i \in 1..Len(rows) |-> RInt(rows[i]["Cost"])]

DividesEvenly(rows) ==
    \A i \in 1..Len(rows) :
        /\ rows[i]["Useful Life (Years)"] >= 1
        /\ rows[i]["Cost"] % rows[i]["Useful Life (Years)"] = 0

UniqueNames(rows) ==
    \A i, j \in 1..Len(rows) :
        rows[i]["Asset Name"] = rows[j]["Asset Name"] => i = j

\* C1: for a non-empty asset table whose costs divide evenly by the useful
\* lives, the 'Total Annual Depreciation' values of all schedule rows add up
\* to the sum of the assets' costs.
C1_CostFullyAllocated ==
    (editor_rows # <<>> /\ DividesEvenly(editor_rows)) =>
        SumOver(DOMAIN RowTotals, RowTotals)
            = SumOver(DOMAIN editor_rows, AssetCostsOf(editor_rows))

\* Two assets with different lives, both dividing evenly, over several years.
C1_Witness ==
    /\ Len(editor_rows) = 2
    /\ DividesEvenly(editor_rows)
    /\ editor_rows[1]["Useful Life (Years)"] # editor_rows[2]["Useful Life (Years)"]
    /\ Len(full_schedule) >= 3

\* C2: the cumulative depreciation of row k is the sum of the totals of rows
\* 1..k, rows being in ascending year order; the last row's cumulative value
\* is the sum of all totals.
C2_CumulativeIsPrefixSum ==
    /\ \A k \in 1..Len(full_schedule) :
          /\ full_schedule[k].Cumulative = SumOver(1..k, RowTotals)
          /\ k > 1 => full_schedule[k - 1].Year < full_schedule[k].Year
    /\ full_schedule # <<>> =>
          full_schedule[Len(full_schedule)].Cumulative
              = SumOver(DOMAIN RowTotals, RowTotals)

\* A schedule of several years in which a later row adds a non-zero total.
C2_Witness ==
    /\ Len(full_schedule) >= 3
    /\ full_schedule[1].Total # RZero
    /\ full_schedule[Len(full_schedule)].Total # RZero
    /\ full_schedule[Len(full_schedule)].Cumulative # full_schedule[Len(full_schedule)].Total

ScheduleYears == {full_schedule[k].Year : k \in 1..Len(full_schedule)}
FirstYear(rows) ==
    CHOOSE y \in {rows[i]["Purchase Year"] : i \in 1..Len(rows)} :
        \A i \in 1..Len(rows) : y <= rows[i]["Purchase Year"]
LastEndYear(rows) ==
    CHOOSE y \in {rows[i]["Purchase Year"] + rows[i]["Useful Life (Years)"] - 1 :
                      i \in 1..Len(rows)} :
        \A i \in 1..Len(rows) :
            y >= rows[i]["Purchase Year"] + rows[i]["Useful Life (Years)"] - 1

\* C3: an empty asset table gives an empty schedule; a non-empty one gives
\* exactly one row per year from the earliest purchase year to the latest
\* end year, in strictly ascending order.
C3_OneRowPerYear ==
    /\ editor_rows = <<>> => full_schedule = <<>>
    /\ editor_rows # <<>> =>
          /\ ScheduleYears = FirstYear(editor_rows)..LastEndYear(editor_rows)
          /\ Len(full_schedule) = LastEndYear(editor_rows) - FirstYear(editor_rows) + 1
          /\ \A k \in 1..Len(full_schedule) :
                full_schedule[k].Year = FirstYear(editor_rows) + k - 1

\* Two assets whose periods leave a gap year between them.
C3_Witness ==
    /\ Len(editor_rows) = 2
    /\ \E k \in 1..Len(full_schedule) : full_schedule[k].Total = RZero
    /\ Len(full_schedule) >= 3

NamesOf(rows) == {rows[i]["Asset Name"] : i \in 1..Len(rows)}

ExpectedShare(asset, year) ==
    IF /\ asset["Purchase Year"] <= year
       /\ year <= asset["Purchase Year"] + asset["Useful Life (Years)"] - 1
    THEN Rat(asset["Cost"], asset["Useful Life (Years)"])
    ELSE RZero

\* C4: with unique asset names, every schedule row has a column for every
\* asset, holding cost / useful life inside the asset's period and 0 outside
\* it, and the row's total is the sum of its asset columns.
C4_ColumnsAndTotal ==
    UniqueNames(editor_rows) =>
        \A k \in 1..Len(full_schedule) :
            LET row == full_schedule[k]
            IN  /\ DOMAIN row.Assets = NamesOf(editor_rows)
                /\ \A i \in 1..Len(editor_rows) :
                      row.Assets[editor_rows[i]["Asset Name"]]
                          = ExpectedShare(editor_rows[i], row.Year)
                /\ row.Total = SumOver(DOMAIN row.Assets, row.Assets)

\* Two differently named assets, one of them outside its period in some row
\* and both inside their periods in another.
C4_Witness ==
    /\ Len(editor_rows) = 2
    /\ UniqueNames(editor_rows)
    /\ \E k \in 1..Len(full_schedule) :
          \E n \in NamesOf(editor_rows) : full_schedule[k].Assets[n] = RZero
    /\ \E k \in 1..Len(full_schedule) :
          \A n \in NamesOf(editor_rows) : full_schedule[k].Assets[n] # RZero

\* C5: generate_calendar_schedule leaves the DataFrame passed to it as the
\* editor returned it, and the exported 'Input Assets' sheet is that table.
C5_InputUnchanged ==
    /\ edited_df = data_editor(editor_rows)
    /\ input_sheet.written => input_sheet.frame = data_editor(editor_rows)

====
